---- MODULE Spec2Model ----
(***************************************************************************)
(* Model of the real-time awareness core of BlindSpot:                     *)
(*   - NavigationSession (navigation.py): the turn-by-turn state machine   *)
(*   - ObstacleProcessor (obstacle.py): the bounded frame queue and the    *)
(*     asyncio worker loop that emits on_obstacle / on_clear               *)
(*                                                                         *)
(* Geometry.  Positions are points on one meridian, measured in arc units  *)
(* of 1/UnitsPerMeter metre northwards of the route origin.  On a meridian *)
(* the haversine distance of two points is the arc between them, so        *)
(* _haversine_distance is |p - q|, and _bearing_degrees is 0 (target to    *)
(* the north, or the same point: atan2(0, 0) = 0) or 180 (to the south).   *)
(*                                                                         *)
(* Text.  A string is a sequence of tokens; the markup tags and the        *)
(* separators " onto ", " toward ", " on " are tokens of their own.        *)
(***************************************************************************)
EXTENDS Integers, Sequences, FiniteSets, TLC

VARIABLES
  \* ---- NavigationSession fields (navigation.py:95-100)
  active_route,                    \* a route, or NoRoute
  current_step_index,
  destination,
  last_instruction_spoken_index,
  route_started_at,                \* a clock reading, or NoTime
  \* ---- environment of the session
  now,                             \* time.monotonic(), in seconds
  nav_result,                      \* what the last update_location call returned
  \* ---- observers of the session (history, written by no program code)
  nav_hist,
  \* ---- ObstacleProcessor fields (obstacle.py:155-163)
  queue,                           \* _queue: pending frames and stop sentinels
  running,                         \* _running
  last_obstacle,                   \* _last_obstacle
  frames_processed,                \* _frames_processed
  use_hog,                         \* _use_hog
  task,                            \* _task: where the worker coroutine is
  must_cancel,                     \* _task.cancel() requested, not yet delivered
  \* ---- locals of the worker coroutine _loop
  item,                            \* the frame it dequeued
  detect_result,                   \* what the detector thread produced
  cb,                              \* the callback it is awaiting
  \* ---- observers of the pipeline
  hz_hist,
  \* ---- locals of my_agent and state of its collaborators (agent.py:130-136)
  obstacle_processor,              \* TRUE when an ObstacleProcessor is held
  app_navigation_enabled,
  app_obstacles_enabled,
  greeting_said,
  obstacle_frames_received,
  latest_heading,                  \* NavigationTool._latest_heading
  cb_pc,                           \* where the hazard callback coroutine is
  gps_tasks,                       \* _process_gps tasks created, not yet run
  voice,                           \* AgentSession: speech playing, then queued
  side_channel,                    \* last payload handed to publish_data
  \* ---- observers of the agent
  ag_hist,
  \* ---- arguments and result of one call of _relative_direction
  rel_call,
  \* ---- NavigationTool: client, _latest_lat/_latest_lng known, and the
  \* start_navigation call in flight with the message it returned last
  nav_tool,
  \* ---- arguments and result of one normalization of a step instruction
  rewrite_call

nav_vars == <<active_route, current_step_index, destination,
              last_instruction_spoken_index, route_started_at, now,
              nav_result, nav_hist>>

hz_vars == <<queue, running, last_obstacle, frames_processed, use_hog, task,
             must_cancel, item, detect_result, cb, hz_hist>>

agent_vars == <<obstacle_processor, app_navigation_enabled,
                app_obstacles_enabled, greeting_said, obstacle_frames_received,
                latest_heading, cb_pc, gps_tasks, voice, side_channel, ag_hist>>

vars == <<nav_vars, hz_vars, agent_vars, rel_call, nav_tool, rewrite_call>>

----------------------------------------------------------------------------
\* Bounds of the model

MaxSteps == 3          \* longest route, in steps
MaxNow == 36           \* the clock stops advancing here
TickSeconds == 9       \* the clock advances in jumps of this many seconds
UnitsPerMeter == 2     \* resolution of a position: half metres
MaxFrames == 4         \* frames the worker takes from the queue

----------------------------------------------------------------------------
\* Program constants

ROUTE_START_GRACE_SECONDS == 18
TURN_ANNOUNCEMENT_THRESHOLD == 45
TURN_NOW_THRESHOLD == 12

NoRoute == [legs |-> <<>>, none |-> TRUE]
NoTime == -1
NoHeading == -1
NoLocation == -1
\* an end_location that is a non-empty dict without "lat" or without "lng"
PartialLocation == -2

QUEUE_MAXSIZE == 2

----------------------------------------------------------------------------
\* Geometry utilities

Abs(x) == IF x < 0 THEN -x ELSE x

haversine_distance(p, q) == Abs(p - q)

bearing_degrees(p, q) == IF q < p THEN 180 ELSE 0

\* thresholds are x.5 degrees: compare twice the bearing with twice the bound
bearing_to_cardinal(bearing) ==
  IF 2 * bearing < 45 \/ 2 * bearing >= 675 THEN "north"
  ELSE IF 2 * bearing < 135 THEN "north-east"
  ELSE IF 2 * bearing < 225 THEN "east"
  ELSE IF 2 * bearing < 315 THEN "south-east"
  ELSE IF 2 * bearing < 405 THEN "south"
  ELSE IF 2 * bearing < 495 THEN "south-west"
  ELSE IF 2 * bearing < 585 THEN "west"
  ELSE "north-west"

\* the intervals with 45 counted as right of forward
RelativeDirectionOpenAt45(user_heading, target_bearing) ==
  LET diff == ((target_bearing - user_heading + 540) % 360) - 180
  IN  IF -45 <= diff /\ diff < 45 THEN "forward"
      ELSE IF 45 <= diff /\ diff <= 135 THEN "right"
      ELSE IF -135 <= diff /\ diff < -45 THEN "left"
      ELSE "behind"

relative_direction(user_heading, target_bearing) ==
  LET diff == ((target_bearing - user_heading + 540) % 360) - 180
  IN  IF -45 <= diff /\ diff <= 45 THEN "forward"
      ELSE IF 45 < diff /\ diff <= 135 THEN "right"
      ELSE IF -135 <= diff /\ diff < -45 THEN "left"
      ELSE "behind"

----------------------------------------------------------------------------
\* Instruction normalizer

Tags == {"<b>", "</b>", "<div style=\"font-size:0.9em\">", "</div>"}

RECURSIVE RemoveTags(_)
RemoveTags(s) ==
  IF s = <<>> THEN <<>>
  ELSE IF Head(s) \in Tags THEN RemoveTags(Tail(s))
  ELSE <<Head(s)>> \o RemoveTags(Tail(s))

clean_instruction(html_instruction) == RemoveTags(html_instruction)

Contains(s, tok) == \E i \in 1..Len(s) : s[i] = tok

FirstIndex(s, tok) == CHOOSE i \in 1..Len(s) :
                        s[i] = tok /\ \A j \in 1..(i - 1) : s[j] # tok

\* raw_instruction.rsplit(sep, 1)[1]
AfterLast(s, tok) ==
  LET last == CHOOSE i \in 1..Len(s) :
                s[i] = tok /\ \A j \in (i + 1)..Len(s) : s[j] # tok
  IN  SubSeq(s, last + 1, Len(s))

\* raw_instruction.split(sep, 1)[1]
AfterFirst(s, tok) == SubSeq(s, FirstIndex(s, tok) + 1, Len(s))

\* a token of white space; the other tokens of a text have none at their ends
WhiteSpace == {" "}

RECURSIVE LStripText(_)
LStripText(s) == IF s # <<>> /\ Head(s) \in WhiteSpace
                 THEN LStripText(Tail(s)) ELSE s

RECURSIVE RStripText(_)
RStripText(s) == IF s # <<>> /\ s[Len(s)] \in WhiteSpace
                 THEN RStripText(SubSeq(s, 1, Len(s) - 1)) ELSE s

\* parts[1].strip()
StripText(s) == RStripText(LStripText(s))

HeadPhrase(relative, cardinal) ==
  IF relative = "behind"
  THEN <<"Head ", "behind you", ", that's ", cardinal>>
  ELSE <<"Head ", relative, ", that's ", cardinal>>

\* end_loc["lat"], end_loc["lng"] raise KeyError
RewriteRaises(user_heading, next_step) ==
  /\ next_step.end_location = PartialLocation
  /\ user_heading # NoHeading

rewrite_instruction_with_heading(raw_instruction, user_heading, pos, next_step) ==
  IF next_step.end_location = NoLocation \/ user_heading = NoHeading
  THEN raw_instruction
  ELSE
    LET target_bearing == bearing_degrees(pos, next_step.end_location)
        relative == relative_direction(user_heading, target_bearing)
        cardinal == bearing_to_cardinal(target_bearing)
        head_phrase == HeadPhrase(relative, cardinal)
    IN  IF Contains(raw_instruction, " onto ")
        THEN head_phrase \o <<" onto ">>
               \o StripText(AfterFirst(raw_instruction, " onto "))
        ELSE IF Contains(raw_instruction, " toward ")
        THEN head_phrase \o <<" toward ">>
               \o StripText(AfterFirst(raw_instruction, " toward "))
        ELSE IF Contains(raw_instruction, " on ")
        THEN head_phrase \o <<" on ">>
               \o StripText(AfterFirst(raw_instruction, " on "))
        ELSE head_phrase

----------------------------------------------------------------------------
\* Routes, samples and labels the environment supplies

StepLength == 60 * UnitsPerMeter
\* the "Now." test made with the threshold of the early warning
NowUnitsOfWarning == TURN_ANNOUNCEMENT_THRESHOLD * UnitsPerMeter

NowUnits == TURN_NOW_THRESHOLD * UnitsPerMeter
WarnUnits == TURN_ANNOUNCEMENT_THRESHOLD * UnitsPerMeter

HtmlInstructions(k) ==
  IF k % 3 = 1
  THEN <<"Head ", "<b>", "north", "</b>", " on ", "<b>", "Oak Ave", "</b>",
         " toward ", "<b>", "Elm St", "</b>">>
  ELSE IF k % 3 = 2
  THEN <<"Turn ", "<b>", "left", "</b>", " onto ", "<b>", "Main St", "</b>",
         "<div style=\"font-size:0.9em\">", "Destination will be on the right",
         "</div>">>
  ELSE <<"Turn ", "<b>", "right", "</b>">>

\* the k-th step (k = 1 is steps[0]) ends k step lengths north of the origin
RouteStep(k) == [end_location |-> k * StepLength,
                 html_instructions |-> HtmlInstructions(k)]

RouteOf(n) == [legs |-> <<[steps |-> [k \in 1..n |-> RouteStep(k)]]>>,
               none |-> FALSE]

Routes == {RouteOf(n) : n \in 1..MaxSteps}

\* a route of two steps whose step k has end_location loc
RouteWithEnd(k, loc) ==
  [legs |-> <<[steps |-> [j \in 1..2 |->
                 IF j = k THEN [RouteStep(j) EXCEPT !.end_location = loc]
                 ELSE RouteStep(j)]]>>,
   none |-> FALSE]

\* routes a directions response can hold: no legs, a leg with no steps, a
\* step without end_location, a step whose end_location lacks lat or lng
MalformedRoutes ==
  {[legs |-> <<>>, none |-> FALSE], [legs |-> <<[steps |-> <<>>]>>, none |-> FALSE]}
  \cup {RouteWithEnd(k, loc) : k \in 1..2, loc \in {NoLocation, PartialLocation}}

Destinations == {"Union Station", "home"}

\* distances from a step's end at which the walker is sampled
SampleOffsets == {0, NowUnits - 1, NowUnits, WarnUnits - 1, WarnUnits}

SamplePositions ==
  {0} \cup {k * StepLength - d : k \in 1..MaxSteps, d \in SampleOffsets}

Headings == {NoHeading, 0, 100}

----------------------------------------------------------------------------
\* NavigationSession

NoneResult == [kind |-> "none", step |-> -1, meters |-> -1,
               text |-> <<>>, dest |-> ""]

\* the call raises KeyError to its caller
Raised == [kind |-> "raise", step |-> -1, meters |-> -1,
           text |-> <<>>, dest |-> ""]

Arrived(dest) == [kind |-> "arrived", step |-> -1, meters |-> -1,
                  text |-> <<"You have arrived at your destination: ">>,
                  dest |-> dest]

NowInstruction(next_step_index, instruction_text) ==
  [kind |-> "now", step |-> next_step_index, meters |-> -1,
   text |-> instruction_text \o <<" Now.">>, dest |-> ""]

\* int(dist): the distance in metres, truncated
Warning(next_step_index, dist, instruction_text) ==
  [kind |-> "warn", step |-> next_step_index, meters |-> dist \div UnitsPerMeter,
   text |-> instruction_text, dest |-> ""]

\* the clock read in milliseconds, the window kept in seconds
InGraceMillis(started_at, t) ==
  started_at # NoTime /\ (t - started_at) * 1000 < ROUTE_START_GRACE_SECONDS

InGrace(started_at, t) ==
  started_at # NoTime /\ t - started_at < ROUTE_START_GRACE_SECONDS

\* "Now." only for a step whose warning was returned
NowGuardNeedsWarning(last_spoken, next_step_index) == last_spoken = next_step_index

\* "Now." only for a step that was not announced yet
NowGuardStrict(last_spoken, next_step_index) == last_spoken < next_step_index

NowGuard(last_spoken, next_step_index) == last_spoken <= next_step_index

\* the warning guard written like the "Now." guard
WarnGuardLoose(last_spoken, next_step_index) == last_spoken <= next_step_index

WarnGuard(last_spoken, next_step_index) == last_spoken < next_step_index

\* the arrival guard asking for a step whose instruction was never spoken
ArrivalGuardBehindByTwo(last_spoken, cursor) == last_spoken + 1 < cursor

\* the arrival guard written like the "Now." guard
ArrivalGuardLoose(last_spoken, cursor) == last_spoken <= cursor

ArrivalGuard(last_spoken, cursor) == last_spoken < cursor

\* the index of the step being left, recorded as spoken
LastSpokenAfterNowStale(cursor, next_step_index) == cursor

\* "Now.": self.last_instruction_spoken_index = next_step_index
LastSpokenAfterNow(cursor, next_step_index) == next_step_index

\* update_location: the returned value and the two indices it leaves behind
UpdateLocationOutcome(route, cursor, last_spoken, dest, started_at, t, pos, heading) ==
  LET same(res) == [res |-> res, cursor |-> cursor, last |-> last_spoken]
  IN
  IF route.none THEN same(NoneResult)
  ELSE IF InGrace(started_at, t) THEN same(NoneResult)
  ELSE IF Len(route.legs) = 0 THEN same(NoneResult)
  ELSE
    LET steps == route.legs[1].steps IN
    IF cursor >= Len(steps) THEN same(NoneResult)
    ELSE
      LET current_step == steps[cursor + 1]
          dist == haversine_distance(pos, current_step.end_location)
          next_step_index == cursor + 1
      IN
      IF current_step.end_location = NoLocation THEN same(NoneResult)
      ELSE IF current_step.end_location = PartialLocation THEN same(Raised)
      ELSE IF next_step_index >= Len(steps)
      THEN IF ArrivalGuard(last_spoken, cursor)
           THEN [res |-> Arrived(dest), cursor |-> cursor, last |-> cursor]
           ELSE same(NoneResult)
      ELSE
        LET next_step == steps[next_step_index + 1]
            raw_instruction == clean_instruction(next_step.html_instructions)
            instruction_text ==
              rewrite_instruction_with_heading(raw_instruction, heading, pos, next_step)
        IN
        IF RewriteRaises(heading, next_step) THEN same(Raised)
        ELSE IF dist < NowUnits
        THEN IF NowGuard(last_spoken, next_step_index)
             THEN [res |-> NowInstruction(next_step_index, instruction_text),
                   cursor |-> next_step_index,
                   last |-> LastSpokenAfterNow(cursor, next_step_index)]
             ELSE same(NoneResult)
        ELSE IF dist < WarnUnits
        THEN IF WarnGuard(last_spoken, next_step_index)
             THEN [res |-> Warning(next_step_index, dist, instruction_text),
                   cursor |-> cursor, last |-> next_step_index]
             ELSE same(NoneResult)
        ELSE same(NoneResult)

----------------------------------------------------------------------------
\* Observers of the navigation session

StepIndexes == 0..MaxSteps

Sat(n) == IF n >= 2 THEN 2 ELSE n + 1

FreshTrack(c) == [step |-> c, prev |-> -1, mono |-> TRUE, zone |-> FALSE,
                  below |-> FALSE, skip |-> FALSE, warns |-> 0, nows |-> 0]

FreshHist == [warns |-> [k \in StepIndexes |-> 0],
              nows |-> [k \in StepIndexes |-> 0],
              warn_after_now |-> FALSE,
              arrivals |-> 0,
              arrived_off_final |-> FALSE,
              final_sampled |-> FALSE,
              grace_call |-> FALSE,
              restarted |-> FALSE,     \* the route replaced one with progress
              after_stop |-> FALSE,    \* stop_navigation ended the last route
              idle_call |-> FALSE,     \* update_location was called with no route
              track |-> FreshTrack(-1)]

StepsOf(route) == IF route.none \/ Len(route.legs) = 0 THEN <<>>
                  ELSE route.legs[1].steps

\* the samples of one approach: those processed after the grace window while
\* the cursor is on one non-final step, up to the first one closer than 12 m
TrackAfter(h, route, cursor, pos, res) ==
  LET steps == StepsOf(route)
      base == IF h.track.step = cursor THEN h.track ELSE FreshTrack(cursor)
      d == haversine_distance(pos, steps[cursor + 1].end_location)
  IN  IF cursor + 1 >= Len(steps) THEN h.track
      ELSE IF base.below THEN base
      ELSE [step |-> cursor,
            prev |-> d,
            mono |-> base.mono /\ (base.prev = -1 \/ d < base.prev),
            zone |-> base.zone \/ (NowUnits <= d /\ d < WarnUnits),
            below |-> d < NowUnits,
            skip |-> base.prev > WarnUnits /\ d < NowUnits,
            warns |-> IF res.kind = "warn" THEN Sat(base.warns) ELSE base.warns,
            nows |-> IF res.kind = "now" THEN Sat(base.nows) ELSE base.nows]

HistAfter(h, route, cursor, pos, res) ==
  LET steps == StepsOf(route)
      on_final == cursor + 1 = Len(steps)
  IN  [warns |-> IF res.kind = "warn"
                 THEN [h.warns EXCEPT ![res.step] = Sat(@)] ELSE h.warns,
       nows |-> IF res.kind = "now"
                THEN [h.nows EXCEPT ![res.step] = Sat(@)] ELSE h.nows,
       warn_after_now |-> h.warn_after_now
                          \/ (res.kind = "warn" /\ h.nows[res.step] > 0),
       arrivals |-> IF res.kind = "arrived" THEN Sat(h.arrivals) ELSE h.arrivals,
       arrived_off_final |-> h.arrived_off_final
                             \/ (res.kind = "arrived" /\ ~on_final),
       final_sampled |-> h.final_sampled \/ on_final,
       grace_call |-> h.grace_call,
       restarted |-> h.restarted,
       after_stop |-> h.after_stop,
       idle_call |-> h.idle_call,
       track |-> TrackAfter(h, route, cursor, pos, res)]

----------------------------------------------------------------------------
\* Operations of the navigation session

SessionState == [active_route |-> active_route,
                 current_step_index |-> current_step_index,
                 destination |-> destination,
                 last_instruction_spoken_index |-> last_instruction_spoken_index,
                 route_started_at |-> route_started_at]

\* start_route that resets everything but the cursor
RouteStartKeepsCursor(route, dest, t, old) ==
  [active_route |-> route,
   current_step_index |-> old.current_step_index,
   destination |-> dest,
   last_instruction_spoken_index |-> -1,
   route_started_at |-> t]

\* start_route that leaves the progress of the route before in place
RouteStartKeepsProgress(route, dest, t, old) ==
  [active_route |-> route,
   current_step_index |-> old.current_step_index,
   destination |-> dest,
   last_instruction_spoken_index |-> old.last_instruction_spoken_index,
   route_started_at |-> t]

\* the fields start_route leaves behind
RouteStartState(route, dest, t, old) ==
  [active_route |-> route,
   current_step_index |-> 0,
   destination |-> dest,
   last_instruction_spoken_index |-> -1,
   route_started_at |-> t]

\* stop_navigation that resets the progress and keeps the route
RouteStopKeepsRoute(old) ==
  [active_route |-> old.active_route,
   current_step_index |-> 0,
   destination |-> "",
   last_instruction_spoken_index |-> -1,
   route_started_at |-> old.route_started_at]

\* the fields stop_navigation leaves behind
RouteStopState(old) ==
  [active_route |-> NoRoute,
   current_step_index |-> 0,
   destination |-> "",
   last_instruction_spoken_index |-> -1,
   route_started_at |-> NoTime]

is_in_initial_nav_phase(route, started_at, t) ==
  IF route.none \/ started_at = NoTime THEN FALSE
  ELSE t - started_at < ROUTE_START_GRACE_SECONDS

SetSession(st) ==
  /\ active_route' = st.active_route
  /\ current_step_index' = st.current_step_index
  /\ destination' = st.destination
  /\ last_instruction_spoken_index' = st.last_instruction_spoken_index
  /\ route_started_at' = st.route_started_at

StartRouteCall(route, dest) ==
  /\ SetSession(RouteStartState(route, dest, now, SessionState))
  /\ nav_hist' = [FreshHist EXCEPT !.restarted =
                    ~active_route.none /\ current_step_index > 0]
  /\ UNCHANGED <<now, nav_result>>

start_route(route, dest) ==
  /\ StartRouteCall(route, dest)
  /\ UNCHANGED hz_vars
  /\ UNCHANGED agent_vars
  /\ UNCHANGED <<rel_call, nav_tool, rewrite_call>>

stop_navigation ==
  /\ SetSession(RouteStopState(SessionState))
  /\ nav_hist' = [FreshHist EXCEPT !.after_stop = TRUE]
  /\ UNCHANGED <<now, nav_result>>
  /\ UNCHANGED hz_vars
  /\ UNCHANGED agent_vars
  /\ UNCHANGED <<rel_call, nav_tool, rewrite_call>>

\* the two indices of the session
SessionIndices == [cursor |-> current_step_index,
                   last |-> last_instruction_spoken_index]

\* update_location run on the indices seen
UpdateLocationFrom(seen, pos, heading) ==
  LET out == UpdateLocationOutcome(active_route, seen.cursor, seen.last,
                                   destination, route_started_at, now, pos,
                                   heading)
      processed == /\ ~active_route.none
                   /\ ~InGrace(route_started_at, now)
                   /\ seen.cursor < Len(StepsOf(active_route))
  IN  /\ nav_result' = out.res
      /\ current_step_index' = out.cursor
      /\ last_instruction_spoken_index' = out.last
      /\ nav_hist' = IF processed
                     THEN HistAfter(nav_hist, active_route, seen.cursor,
                                    pos, out.res)
                     ELSE IF ~active_route.none
                     THEN [nav_hist EXCEPT !.grace_call = TRUE]
                     ELSE [nav_hist EXCEPT !.idle_call = TRUE]
      /\ UNCHANGED <<active_route, destination, route_started_at, now>>

\* update_location reads self.current_step_index and
\* self.last_instruction_spoken_index when it runs
UpdateLocationCall(pos, heading) ==
  UpdateLocationFrom(SessionIndices, pos, heading)

update_location(pos, heading) ==
  /\ UpdateLocationCall(pos, heading)
  /\ UNCHANGED hz_vars
  /\ UNCHANGED agent_vars
  /\ UNCHANGED <<rel_call, nav_tool, rewrite_call>>

\* time.monotonic() moves forward between calls
Tick ==
  /\ now + TickSeconds <= MaxNow
  /\ now' = now + TickSeconds
  /\ UNCHANGED <<active_route, current_step_index, destination,
                 last_instruction_spoken_index, route_started_at,
                 nav_result, nav_hist>>
  /\ UNCHANGED hz_vars
  /\ UNCHANGED agent_vars
  /\ UNCHANGED <<rel_call, nav_tool, rewrite_call>>

NavInit ==
  /\ active_route = NoRoute
  /\ current_step_index = 0
  /\ destination = ""
  /\ last_instruction_spoken_index = -1
  /\ route_started_at = NoTime
  /\ now = 0
  /\ nav_result = NoneResult
  /\ nav_hist = FreshHist

NavNext ==
  \/ \E r \in Routes, d \in Destinations : start_route(r, d)
  \/ stop_navigation
  \/ \E p \in SamplePositions, h \in Headings : update_location(p, h)
  \/ Tick

----------------------------------------------------------------------------
\* Frames the camera channel delivers

\* A payload is its content with or without surrounding white space and line
\* breaks.  The content tells what the decoder and the detector make of it:
\*   ""        nothing
\*   "short"   not base64, or base64 of fewer than 100 bytes, or no image
\*   "tiny"    an image of fewer than 100 elements
\*   "clear"   an image showing no obstacle in the path ahead
\*   "person"  an image showing a person in the path ahead
\*   "car"     an image showing a car in the path ahead
\*   "crash"   an image on which the detector call raises
FrameContents == {"", "short", "tiny", "clear", "person", "car", "crash"}

FramePayloads == [pad : BOOLEAN, content : FrameContents]

Sentinel == "None"

NoFrame == "-"

\* (data_base64 or "").strip().replace("\n", "").replace("\r", "")
StripPayload(data) == data.content

\* _decode_frame without the test of the length of the decoded payload
DecodeFrameAnyLength(b64) == b64

\* _decode_frame: None, or the image
decode_frame(b64) == IF b64 = "short" THEN "None" ELSE b64

\* len(img.shape) < 2 or img.size < 100
ImageTooSmall(img) == img = "tiny"

\* _hog_detect_person: people only
hog_detect_person(img) ==
  IF img = "crash" THEN "raise"
  ELSE IF img = "person" THEN "person"
  ELSE "None"

\* _yolo_detect: the name of the class found in the path ahead
yolo_detect(img) ==
  IF img = "crash" THEN "raise"
  ELSE IF img \in {"person", "car"} THEN img
  ELSE "None"

Detect(hog, img) == IF hog THEN hog_detect_person(img) ELSE yolo_detect(img)

----------------------------------------------------------------------------
\* asyncio.Queue(maxsize=2)

\* full() with the bound compared one too far
QFullOffByOne(q) == Len(q) > QUEUE_MAXSIZE

QFull(q) == Len(q) >= QUEUE_MAXSIZE

\* put_nowait: the queue afterwards; a full queue raises QueueFull and is unchanged
QPutNowait(q, x) == IF QFull(q) THEN q ELSE Append(q, x)

\* get_nowait: the queue afterwards; an empty queue raises QueueEmpty
QGetNowait(q) == IF q = <<>> THEN q ELSE Tail(q)

----------------------------------------------------------------------------
\* ObstacleProcessor: what the calls leave behind

\* the try block of put_frame that forgets to make room
PutFrameQueueNoEvict(q, b64) == QPutNowait(q, b64)

\* the try block of put_frame
PutFrameQueue(q, b64) ==
  IF QFull(q) THEN QPutNowait(QGetNowait(q), b64) ELSE QPutNowait(q, b64)

TaskAlive(t) == t \notin {"none", "done"}

\* start() that never returns early
StartReturnsEarlyNever(t) == FALSE

\* start(): nothing to do when there is a task that is not done
StartReturnsEarly(t) == TaskAlive(t)

\* stop() that only clears the flag and posts the sentinel
StopCancelsNever(t) == FALSE

\* stop(): the worker task is cancelled when there is one that is not done
StopCancels(t) == TaskAlive(t)

\* is_new computed from the flag the wrong way round
IsNewInverted(last) == last

IsNew(last) == ~last

NoCallback == [type |-> "none", desc |-> "", is_new |-> FALSE]

OnObstacle(desc, is_new) == [type |-> "obstacle", desc |-> desc, is_new |-> is_new]

OnClear == [type |-> "clear", desc |-> "", is_new |-> FALSE]

----------------------------------------------------------------------------
\* Observers of the pipeline

FreshHzHist == [prev_result |-> "none",   \* result of the frame processed last
                events |-> <<>>,          \* callbacks started, in order
                stopped |-> FALSE,        \* stop() called, no worker created since
                put_on_full |-> FALSE,    \* the last put_frame found 2 pending frames
                start_noop |-> FALSE,     \* the last call was a start() with a live worker
                raised |-> FALSE,         \* a detector call has raised
                skipped |-> FALSE,        \* the frame dequeued last was skipped
                since_cb |-> <<>>]        \* the last two frames accepted since the
                                          \* worker began to await its callback

LastTwo(s) == IF Len(s) <= 2 THEN s ELSE SubSeq(s, Len(s) - 1, Len(s))

EventOf(c) == IF c.type = "clear" THEN "clear"
              ELSE IF c.is_new THEN "new" ELSE "repeat"

----------------------------------------------------------------------------
\* Operations of the pipeline

PutFrameCall(data) ==
  LET b64 == StripPayload(data) IN
  /\ IF ~running \/ b64 = ""
     THEN /\ UNCHANGED queue
          /\ hz_hist' = [hz_hist EXCEPT !.put_on_full = FALSE, !.start_noop = FALSE]
     ELSE /\ queue' = PutFrameQueue(queue, b64)
          /\ hz_hist' = [hz_hist EXCEPT !.start_noop = FALSE, !.put_on_full =
                            Len(queue) = 2 /\ Sentinel \notin {queue[1], queue[2]},
                          !.since_cb = IF task = "cb"
                                       THEN LastTwo(@ \o <<b64>>) ELSE @]
  /\ UNCHANGED <<running, last_obstacle, frames_processed, use_hog, task,
                 must_cancel, item, detect_result, cb>>

put_frame(data) ==
  /\ PutFrameCall(data)
  /\ UNCHANGED nav_vars
  /\ UNCHANGED agent_vars
  /\ UNCHANGED <<rel_call, nav_tool, rewrite_call>>

StartCall ==
  /\ IF StartReturnsEarly(task)
     THEN /\ UNCHANGED <<running, task, must_cancel>>
          /\ hz_hist' = [hz_hist EXCEPT !.start_noop = TRUE]
     ELSE /\ running' = TRUE
          /\ task' = "new"
          /\ must_cancel' = FALSE
          /\ hz_hist' = [hz_hist EXCEPT !.stopped = FALSE, !.start_noop = FALSE]
  /\ UNCHANGED <<queue, last_obstacle, frames_processed, use_hog, item,
                 detect_result, cb>>

start ==
  /\ StartCall
  /\ UNCHANGED nav_vars
  /\ UNCHANGED agent_vars
  /\ UNCHANGED <<rel_call, nav_tool, rewrite_call>>

StopCall ==
  /\ running' = FALSE
  /\ queue' = QPutNowait(queue, Sentinel)
  /\ must_cancel' = (must_cancel \/ StopCancels(task))
  /\ hz_hist' = [hz_hist EXCEPT !.stopped = TRUE, !.start_noop = FALSE]
  /\ UNCHANGED <<last_obstacle, frames_processed, use_hog, task, item,
                 detect_result, cb>>

stop ==
  /\ StopCall
  /\ UNCHANGED nav_vars
  /\ UNCHANGED agent_vars
  /\ UNCHANGED <<rel_call, nav_tool, rewrite_call>>

\* ---- the worker coroutine _loop, one action per resumption

\* leaving the loop: the finally clause
WorkerExit ==
  /\ running' = FALSE
  /\ task' = "done"
  /\ must_cancel' = FALSE
  /\ item' = NoFrame
  /\ detect_result' = "None"
  /\ cb' = NoCallback

\* the head of the while loop
WorkerLoopTop ==
  IF running
  THEN /\ task' = "get"
       /\ item' = NoFrame
       /\ detect_result' = "None"
       /\ cb' = NoCallback
       /\ UNCHANGED <<running, must_cancel>>
  ELSE WorkerExit

\* first resumption of a task that was not cancelled before it ran
WorkerBegin ==
  /\ task = "new" /\ ~must_cancel
  /\ WorkerLoopTop
  /\ UNCHANGED <<queue, last_obstacle, frames_processed, use_hog, hz_hist>>
  /\ UNCHANGED nav_vars
  /\ UNCHANGED agent_vars
  /\ UNCHANGED <<rel_call, nav_tool, rewrite_call>>

\* a cancelled task is resumed with CancelledError at the await it is
\* suspended in; a task cancelled before its first resumption never runs
WorkerCancelled ==
  /\ TaskAlive(task) /\ must_cancel
  /\ IF task = "new"
     THEN /\ task' = "done"
          /\ must_cancel' = FALSE
          /\ UNCHANGED <<running, item, detect_result, cb>>
     ELSE WorkerExit
  /\ cb_pc' = "idle"
  /\ hz_hist' = [hz_hist EXCEPT !.since_cb = <<>>]
  /\ UNCHANGED <<queue, last_obstacle, frames_processed, use_hog>>
  /\ UNCHANGED nav_vars
  /\ UNCHANGED <<obstacle_processor, app_navigation_enabled,
                 app_obstacles_enabled, greeting_said, obstacle_frames_received, latest_heading,
                 gps_tasks, voice, side_channel, ag_hist>>
  /\ UNCHANGED <<rel_call, nav_tool, rewrite_call>>

\* wait_for(queue.get(), 0.5) returns an item
WorkerGet ==
  /\ task = "get" /\ ~must_cancel
  /\ queue # <<>>
  /\ Head(queue) = Sentinel \/ frames_processed < MaxFrames
  /\ queue' = Tail(queue)
  /\ IF Head(queue) = Sentinel \/ ~running
     THEN WorkerExit
     ELSE /\ item' = Head(queue)
          /\ task' = "decode"
          /\ UNCHANGED <<running, must_cancel, detect_result, cb>>
  /\ hz_hist' = [hz_hist EXCEPT !.skipped = FALSE]
  /\ UNCHANGED <<last_obstacle, frames_processed, use_hog>>
  /\ UNCHANGED nav_vars
  /\ UNCHANGED agent_vars
  /\ UNCHANGED <<rel_call, nav_tool, rewrite_call>>

\* wait_for(queue.get(), 0.5) times out: continue
WorkerTimeout ==
  /\ task = "get" /\ ~must_cancel
  /\ queue = <<>>
  /\ WorkerLoopTop
  /\ UNCHANGED <<queue, last_obstacle, frames_processed, use_hog, hz_hist>>
  /\ UNCHANGED nav_vars
  /\ UNCHANGED agent_vars
  /\ UNCHANGED <<rel_call, nav_tool, rewrite_call>>

\* to_thread(_decode_frame) returns: skip the frame or hand it to the detector
WorkerDecoded ==
  /\ task = "decode" /\ ~must_cancel
  /\ LET img == decode_frame(item) IN
     IF img = "None" \/ ImageTooSmall(img)
     THEN /\ WorkerLoopTop
          /\ hz_hist' = [hz_hist EXCEPT !.skipped = TRUE]
     ELSE /\ task' = "detect"
          /\ UNCHANGED <<running, must_cancel, item, detect_result, cb, hz_hist>>
  /\ UNCHANGED <<queue, last_obstacle, frames_processed, use_hog>>
  /\ UNCHANGED nav_vars
  /\ UNCHANGED agent_vars
  /\ UNCHANGED <<rel_call, nav_tool, rewrite_call>>

\* the detector thread finishes; the worker is not resumed yet
DetectorFinishes ==
  /\ task = "detect"
  /\ task' = "detected"
  /\ detect_result' = Detect(use_hog, decode_frame(item))
  /\ UNCHANGED <<queue, running, last_obstacle, frames_processed, use_hog,
                 must_cancel, item, cb, hz_hist>>
  /\ UNCHANGED nav_vars
  /\ UNCHANGED agent_vars
  /\ UNCHANGED <<rel_call, nav_tool, rewrite_call>>

\* to_thread(detector) returns or raises in the worker
WorkerDetectedStep ==
  /\ task = "detected" /\ ~must_cancel
  /\ IF detect_result = "raise"
     THEN /\ WorkerExit
          /\ hz_hist' = [hz_hist EXCEPT !.raised = TRUE]
          /\ UNCHANGED <<last_obstacle, frames_processed>>
     ELSE /\ frames_processed' = frames_processed + 1
          /\ task' = "cb"
          /\ IF detect_result # "None"
             THEN /\ cb' = OnObstacle(detect_result, IsNew(last_obstacle))
                  /\ last_obstacle' = TRUE
             ELSE /\ cb' = OnClear
                  /\ last_obstacle' = FALSE
          /\ hz_hist' = [hz_hist EXCEPT
                           !.prev_result = IF detect_result # "None"
                                           THEN "present" ELSE "clear",
                           !.events = Append(@, EventOf(cb')),
                           !.since_cb = <<>>]
          /\ UNCHANGED <<running, must_cancel, item, detect_result>>
  /\ UNCHANGED <<queue, use_hog>>

\* the same, in a pipeline whose callbacks are not the agent's
WorkerDetected ==
  /\ WorkerDetectedStep
  /\ UNCHANGED nav_vars
  /\ UNCHANGED agent_vars
  /\ UNCHANGED <<rel_call, nav_tool, rewrite_call>>

\* the awaited callback returns, or raises an Exception that is logged
CallbackReturns ==
  /\ task = "cb" /\ ~must_cancel
  /\ WorkerLoopTop
  /\ hz_hist' = [hz_hist EXCEPT !.since_cb = <<>>]
  /\ UNCHANGED <<queue, last_obstacle, frames_processed, use_hog>>
  /\ UNCHANGED nav_vars
  /\ UNCHANGED agent_vars
  /\ UNCHANGED <<rel_call, nav_tool, rewrite_call>>

HzInit ==
  /\ queue = <<>>
  /\ running = FALSE
  /\ last_obstacle = FALSE
  /\ frames_processed = 0
  /\ use_hog \in BOOLEAN
  /\ task = "none"
  /\ must_cancel = FALSE
  /\ item = NoFrame
  /\ detect_result = "None"
  /\ cb = NoCallback
  /\ hz_hist = FreshHzHist

HzNext ==
  \/ \E d \in FramePayloads : put_frame(d)
  \/ start
  \/ stop
  \/ WorkerBegin
  \/ WorkerCancelled
  \/ WorkerGet
  \/ WorkerTimeout
  \/ WorkerDecoded
  \/ DetectorFinishes
  \/ WorkerDetected
  \/ CallbackReturns

\* frames of the runs in which the worker is scheduled fairly
LiveFrames == {[pad |-> FALSE, content |-> c] : c \in {"short", "clear", "person"}}

LivePut == \E d \in LiveFrames : put_frame(d)

LiveNext ==
  \/ LivePut
  \/ start
  \/ stop
  \/ WorkerBegin
  \/ WorkerCancelled
  \/ WorkerGet
  \/ WorkerTimeout
  \/ WorkerDecoded
  \/ DetectorFinishes
  \/ WorkerDetected
  \/ CallbackReturns

----------------------------------------------------------------------------
\* The agent job: room packets, the hazard callbacks, GPS tasks, the greeting
\* and the one voice channel (agent.py, google_maps.py)

MaxGpsTasks == 2         \* _process_gps tasks that can be waiting to run
MaxFramesReceived == 3   \* obstacle-frame packets of an agent run
MaxAgentNow == 18        \* the clock of an agent run stops here

greeting_delay == 2

GREETING_PHRASE == <<"Where would you like to go?">>

OBSTACLES_ONLY_GREETING == <<"Object detection on. Point the camera ahead.">>

\* OBSTACLE_PHRASE_TEMPLATE.format(description=description)
ObstaclePhrase(description) == <<"Obstacle ahead: ", description>>

\* the string NavigationSession.update_location returns for a result
InstructionString(res) ==
  CASE res.kind = "arrived" -> res.text \o <<res.dest, ".">>
    [] res.kind = "warn" -> <<"In ", ToString(res.meters), " meters, ">> \o res.text
    [] res.kind = "now" -> res.text
    [] OTHER -> <<>>

NAVIGATION_NOT_ACTIVE == <<"Navigation not active.">>

\* NavigationTool.update_location: what the tool returns to its caller
ToolUpdateLocationReturn(route, res) ==
  IF route.none THEN NAVIGATION_NOT_ACTIVE ELSE InstructionString(res)

\* json.dumps({"detected": detected, "description": description})
ObstaclePayload(detected, description) ==
  [detected |-> detected, description |-> description]

NoPayload == [detected |-> FALSE, description |-> "-"]

\* the payload with the description left out
CallbackPayloadFlagOnly(c) == ObstaclePayload(c.type = "obstacle", "")

\* what the callback of an event hands to _publish_obstacle
CallbackPayload(c) == ObstaclePayload(c.type = "obstacle", c.desc)

Speech(src, text) == [src |-> src, text |-> text]

\* session.interrupt(): the playing speech and the queued ones are cancelled
Interrupt(v) == <<>>

\* session.say(text): the speech plays when the ones before it are over
Say(v, speech) == Append(v, speech)

\* an alert for every detection reported as new
ShouldSpeakIgnoresGrace(is_new, in_initial_nav_phase) == is_new

\* an alert for every detection outside the grace window, repeats included
ShouldSpeakIgnoresIsNew(is_new, in_initial_nav_phase) == ~in_initial_nav_phase

\* if is_new and not nav_tool.session.is_in_initial_nav_phase()
ShouldSpeak(is_new, in_initial_nav_phase) == is_new /\ ~in_initial_nav_phase

\* await session.interrupt() in the hazard callback
InterruptAwaitedInCallback == TRUE

\* session.interrupt() is called and not awaited: the callback goes on to
\* session.say() in the same resumption
InterruptAwaited == FALSE

\* ---- observers of the agent

Op(src, op) == [src |-> src, op |-> op]

\* the two calls made last
LastOps(ops) == IF Len(ops) <= 2 THEN ops
                ELSE SubSeq(ops, Len(ops) - 1, Len(ops))

FreshAgHist == [ops |-> <<>>,              \* the last interrupt and say calls
                grace_at_arrival |-> FALSE, \* grace window open when the event arrived
                streak_in_grace |-> FALSE, \* grace window open when the first event
                                           \* of the current run of detections arrived
                pub_parity |-> FALSE]      \* flips at every publish_data call

\* ---- ObstacleProcessor(...) constructed and started with queue contents q
NewObstacleProcessor(q) ==
  /\ queue' = q
  /\ running' = TRUE
  /\ last_obstacle' = FALSE
  /\ frames_processed' = 0
  /\ task' = "new"
  /\ must_cancel' = FALSE
  /\ item' = NoFrame
  /\ detect_result' = "None"
  /\ cb' = NoCallback
  /\ hz_hist' = FreshHzHist
  /\ UNCHANGED use_hog
  \* the worker of the processor dropped before was cancelled by stop(): it
  \* ends, and its callback with it, before the new worker first runs
  /\ cb_pc' = "idle"

\* ---- _on_data_received, topic obstacle-frame (raw base64 payload)
ObstacleFramePacket(data) ==
  LET b64 == StripPayload(data) IN
  /\ obstacle_frames_received < MaxFramesReceived
  /\ IF b64 = ""
     THEN UNCHANGED <<hz_vars, obstacle_processor, app_obstacles_enabled,
                      obstacle_frames_received, cb_pc>>
     ELSE /\ obstacle_frames_received' = obstacle_frames_received + 1
          /\ IF ~obstacle_processor
             THEN /\ app_obstacles_enabled' = TRUE
                  /\ obstacle_processor' = TRUE
                  /\ NewObstacleProcessor(PutFrameQueue(<<>>, b64))
             ELSE /\ PutFrameCall(data)
                  /\ UNCHANGED <<obstacle_processor, app_obstacles_enabled, cb_pc>>
  /\ UNCHANGED <<app_navigation_enabled, greeting_said, latest_heading,
                 gps_tasks, voice, side_channel, ag_hist>>
  /\ UNCHANGED nav_vars
  /\ UNCHANGED <<rel_call, nav_tool, rewrite_call>>

\* ---- _on_data_received, topic app-mode
AppModePacket(navigation, obstacles) ==
  /\ app_navigation_enabled' = navigation
  /\ app_obstacles_enabled' = obstacles
  /\ UNCHANGED <<obstacle_processor, greeting_said, obstacle_frames_received,
                 latest_heading, cb_pc, gps_tasks, voice, side_channel, ag_hist>>
  /\ UNCHANGED nav_vars
  /\ UNCHANGED hz_vars
  /\ UNCHANGED <<rel_call, nav_tool, rewrite_call>>

\* ---- _on_data_received, topic obstacle-mode
ObstacleModeCall(enabled, nav_enabled) ==
  /\ app_obstacles_enabled' = enabled
  /\ app_navigation_enabled' = nav_enabled
  /\ IF enabled
     THEN IF obstacle_processor
          THEN UNCHANGED <<hz_vars, obstacle_processor, cb_pc>>
          ELSE /\ obstacle_processor' = TRUE
               /\ NewObstacleProcessor(<<>>)
     ELSE IF obstacle_processor
          THEN /\ StopCall
               /\ obstacle_processor' = FALSE
               /\ UNCHANGED cb_pc
          ELSE UNCHANGED <<hz_vars, obstacle_processor, cb_pc>>
  /\ UNCHANGED <<greeting_said, obstacle_frames_received, latest_heading,
                 gps_tasks, voice, side_channel, ag_hist>>
  /\ UNCHANGED nav_vars
  /\ UNCHANGED <<rel_call, nav_tool, rewrite_call>>

\* the same, for a payload without "navigation":
\* payload.get("navigation", app_navigation_enabled)
ObstacleModePacket(enabled) == ObstacleModeCall(enabled, app_navigation_enabled)

\* ---- the worker hands an event to _on_obstacle_detected or _on_obstacle_clear,
\* which runs up to its await of publish_data
AgentWorkerDetected ==
  /\ WorkerDetectedStep
  /\ IF detect_result = "raise"
     THEN UNCHANGED <<cb_pc, side_channel, ag_hist>>
     ELSE /\ cb_pc' = "publish"
          /\ side_channel' = CallbackPayload(cb')
          /\ ag_hist' = [ag_hist EXCEPT
                           !.grace_at_arrival =
                              is_in_initial_nav_phase(active_route,
                                                      route_started_at, now),
                           !.streak_in_grace =
                              IF cb'.type # "obstacle" THEN FALSE
                              ELSE IF cb'.is_new
                                   THEN is_in_initial_nav_phase(active_route,
                                                                route_started_at, now)
                                   ELSE @,
                           !.pub_parity = ~@]
  /\ UNCHANGED <<obstacle_processor, app_navigation_enabled,
                 app_obstacles_enabled, greeting_said, obstacle_frames_received, latest_heading,
                 gps_tasks, voice>>
  /\ UNCHANGED nav_vars
  /\ UNCHANGED <<rel_call, nav_tool, rewrite_call>>

HazardSpeech(c) == Speech("hazard", ObstaclePhrase(c.desc))

HazardSpeechPending(v) == \E i \in 1..Len(v) : v[i].src = "hazard"

\* the callback returns to the worker loop
ObstacleCallbackReturns ==
  /\ cb_pc' = "idle"
  /\ WorkerLoopTop
  /\ UNCHANGED <<voice, ag_hist>>

\* ---- the callback is resumed at the await it is suspended in
ObstacleCallbackResumes ==
  /\ task = "cb" /\ ~must_cancel
  /\ CASE cb_pc = "publish" ->
            IF /\ cb.type = "obstacle"
               /\ ShouldSpeak(cb.is_new,
                              is_in_initial_nav_phase(active_route,
                                                      route_started_at, now))
            THEN /\ IF InterruptAwaited
                    THEN /\ voice' = Interrupt(voice)
                         /\ cb_pc' = "interrupt"
                         /\ ag_hist' = [ag_hist EXCEPT !.ops =
                              LastOps(@ \o <<Op("hazard", "interrupt")>>)]
                    ELSE /\ voice' = Say(Interrupt(voice), HazardSpeech(cb))
                         /\ cb_pc' = "say"
                         /\ ag_hist' = [ag_hist EXCEPT !.ops =
                              LastOps(@ \o <<Op("hazard", "interrupt"),
                                             Op("hazard", "say")>>)]
                 /\ UNCHANGED <<running, task, must_cancel, item,
                                detect_result, cb>>
            ELSE ObstacleCallbackReturns
       [] cb_pc = "interrupt" ->
            /\ voice' = Say(voice, HazardSpeech(cb))
            /\ cb_pc' = "say"
            /\ ag_hist' = [ag_hist EXCEPT !.ops =
                             LastOps(@ \o <<Op("hazard", "say")>>)]
            /\ UNCHANGED <<running, task, must_cancel, item, detect_result, cb>>
       [] cb_pc = "say" ->
            /\ ~HazardSpeechPending(voice)
            /\ ObstacleCallbackReturns
       [] OTHER -> FALSE
  /\ hz_hist' = [hz_hist EXCEPT !.since_cb = IF task' = "cb" THEN @ ELSE <<>>]
  /\ UNCHANGED <<queue, last_obstacle, frames_processed, use_hog>>
  /\ UNCHANGED <<obstacle_processor, app_navigation_enabled,
                 app_obstacles_enabled, greeting_said, obstacle_frames_received, latest_heading,
                 gps_tasks, side_channel>>
  /\ UNCHANGED nav_vars
  /\ UNCHANGED <<rel_call, nav_tool, rewrite_call>>

\* ---- _on_data_received, topic gps; pos is NoLocation when the payload has
\* no lat or no lng
GpsPacket(pos, heading) ==
  /\ Len(gps_tasks) < MaxGpsTasks
  /\ IF pos = NoLocation
     THEN UNCHANGED <<latest_heading, gps_tasks, nav_tool>>
     ELSE /\ latest_heading' = IF heading # NoHeading THEN heading
                               ELSE latest_heading
          /\ nav_tool' = [nav_tool EXCEPT !.has_gps = TRUE]
          /\ gps_tasks' = IF ~active_route.none
                          THEN Append(gps_tasks, [pos |-> pos, heading |-> heading,
                                                  seen |-> SessionIndices])
                          ELSE gps_tasks
  /\ UNCHANGED <<obstacle_processor, app_navigation_enabled,
                 app_obstacles_enabled, greeting_said, obstacle_frames_received,
                 cb_pc, voice, side_channel, ag_hist>>
  /\ UNCHANGED nav_vars
  /\ UNCHANGED hz_vars
  /\ UNCHANGED <<rel_call, rewrite_call>>

\* a task that works on the indices the session had when the task was created
SessionSeenAtCreation(t, current) ==
  IF t.seen.cursor < Len(StepsOf(active_route)) THEN t.seen ELSE current

\* a task finds the indices the session has when the task runs: it has no
\* suspension point between its first read and its last write
SessionSeen(t, current) == current

\* ---- NavigationTool.update_location called by the language model
ToolUpdateLocation(pos, heading) ==
  /\ IF active_route.none
     THEN UNCHANGED nav_vars
     ELSE UpdateLocationCall(pos, IF heading # NoHeading THEN heading
                                  ELSE latest_heading)
  /\ UNCHANGED hz_vars
  /\ UNCHANGED agent_vars
  /\ UNCHANGED <<rel_call, nav_tool, rewrite_call>>

\* ---- the oldest _process_gps task runs, start to end
ProcessGps ==
  /\ gps_tasks # <<>>
  /\ LET t == Head(gps_tasks)
         h == IF t.heading # NoHeading THEN t.heading ELSE latest_heading
         instruction == ToolUpdateLocationReturn(active_route, nav_result')
     IN  /\ IF active_route.none
            THEN UNCHANGED nav_vars
            ELSE UpdateLocationFrom(SessionSeen(t, SessionIndices), t.pos, h)
         /\ IF instruction # <<>>
            THEN /\ voice' = Say(Interrupt(voice), Speech("nav", instruction))
                 /\ ag_hist' = [ag_hist EXCEPT !.ops =
                                  LastOps(@ \o <<Op("nav", "interrupt"),
                                                 Op("nav", "say")>>)]
            ELSE UNCHANGED <<voice, ag_hist>>
  /\ gps_tasks' = Tail(gps_tasks)
  /\ UNCHANGED <<obstacle_processor, app_navigation_enabled,
                 app_obstacles_enabled, greeting_said, obstacle_frames_received, latest_heading, cb_pc,
                 side_channel>>
  /\ UNCHANGED hz_vars
  /\ UNCHANGED <<rel_call, nav_tool, rewrite_call>>

\* the hazard phrase whenever obstacles are enabled
GreetingIgnoresNavigation(obstacles_enabled, navigation_enabled) ==
  IF obstacles_enabled THEN OBSTACLES_ONLY_GREETING ELSE GREETING_PHRASE

\* the phrase say_greeting chooses
GreetingFor(obstacles_enabled, navigation_enabled) ==
  IF obstacles_enabled /\ ~navigation_enabled
  THEN OBSTACLES_ONLY_GREETING ELSE GREETING_PHRASE

\* ---- say_greeting, when its sleep is over
SayGreeting ==
  /\ now <= greeting_delay
  /\ ~greeting_said
  /\ greeting_said' = TRUE
  /\ voice' = Say(voice, Speech("greeting",
                     GreetingFor(app_obstacles_enabled, app_navigation_enabled)))
  /\ ag_hist' = [ag_hist EXCEPT !.ops = LastOps(@ \o <<Op("greeting", "say")>>)]
  /\ UNCHANGED <<obstacle_processor, app_navigation_enabled,
                 app_obstacles_enabled, obstacle_frames_received, latest_heading,
                 cb_pc, gps_tasks, side_channel>>
  /\ UNCHANGED nav_vars
  /\ UNCHANGED hz_vars
  /\ UNCHANGED <<rel_call, nav_tool, rewrite_call>>

\* ---- the playing speech comes to its end
SpeechEnds ==
  /\ voice # <<>>
  /\ voice' = Tail(voice)
  /\ UNCHANGED <<obstacle_processor, app_navigation_enabled,
                 app_obstacles_enabled, greeting_said, obstacle_frames_received, latest_heading, cb_pc,
                 gps_tasks, side_channel, ag_hist>>
  /\ UNCHANGED nav_vars
  /\ UNCHANGED hz_vars
  /\ UNCHANGED <<rel_call, nav_tool, rewrite_call>>

AgentInit ==
  /\ obstacle_processor = FALSE
  /\ app_navigation_enabled = FALSE
  /\ app_obstacles_enabled = FALSE
  /\ greeting_said = FALSE
  /\ obstacle_frames_received = 0
  /\ latest_heading = NoHeading
  /\ cb_pc = "idle"
  /\ gps_tasks = <<>>
  /\ voice = <<>>
  /\ side_channel = NoPayload
  /\ ag_hist = FreshAgHist

\* inputs of the agent runs
AgentFrames == {[pad |-> FALSE, content |-> c] : c \in {"person", "clear"}}

AgentRoute == RouteOf(2)

AgentSamples == {StepLength - (NowUnits - 1)}

AgentTick == now < MaxAgentNow /\ Tick

AgentNext ==
  \/ \E d \in AgentFrames : ObstacleFramePacket(d)
  \/ \E e \in BOOLEAN : ObstacleModePacket(e)
  \/ \E p \in AgentSamples : GpsPacket(p, NoHeading)
  \/ ProcessGps
  \/ start_route(AgentRoute, "home")
  \/ AgentTick
  \/ SayGreeting
  \/ SpeechEnds
  \/ WorkerBegin
  \/ WorkerCancelled
  \/ WorkerGet
  \/ WorkerTimeout
  \/ WorkerDecoded
  \/ DetectorFinishes
  \/ AgentWorkerDetected
  \/ ObstacleCallbackResumes

\* samples inside the warning zone of a step, at whole and fractional metres
WarningOffsets == {NowUnits, NowUnits + 1, NowUnits + 3, WarnUnits - 3,
                   WarnUnits - 2, WarnUnits - 1}

WarningSamples ==
  {k * StepLength - d : k \in 1..(MaxSteps - 1), d \in WarningOffsets}

WarningNext ==
  \/ \E r \in Routes : start_route(r, "home")
  \/ \E p \in WarningSamples : update_location(p, NoHeading)
  \/ Tick

\* the mode packets and the greeting of one job
GreetingNext ==
  \/ \E n \in BOOLEAN, o \in BOOLEAN : AppModePacket(n, o)
  \/ \E e \in BOOLEAN, n \in BOOLEAN : ObstacleModeCall(e, n)
  \/ \E d \in AgentFrames : ObstacleFramePacket(d)
  \/ AgentTick
  \/ SayGreeting
  \/ SpeechEnds
  \/ WorkerBegin
  \/ WorkerCancelled
  \/ WorkerGet
  \/ WorkerTimeout
  \/ WorkerDecoded
  \/ DetectorFinishes
  \/ AgentWorkerDetected
  \/ ObstacleCallbackResumes

\* inputs of the runs with position samples from packets and tool calls
GpsSamples == {StepLength - (WarnUnits - 1), StepLength - (NowUnits - 1)}

GpsNext ==
  \/ start_route(AgentRoute, "home")
  \/ AgentTick
  \/ \E p \in GpsSamples, h \in {NoHeading, 0} : GpsPacket(p, h)
  \/ ProcessGps
  \/ \E p \in GpsSamples, h \in {NoHeading, 0} : ToolUpdateLocation(p, h)
  \/ SpeechEnds

\* inputs of the runs on malformed routes
MalformedSamples == {NoLocation, StepLength - (NowUnits - 1), StepLength - NowUnits}

MalformedNext ==
  \/ \E r \in MalformedRoutes : start_route(r, "home")
  \/ \E p \in MalformedSamples \ {NoLocation}, h \in {NoHeading, 0} :
        update_location(p, h)
  \/ \E p \in MalformedSamples, h \in {NoHeading, 0} : GpsPacket(p, h)
  \/ ProcessGps
  \/ SpeechEnds
  \/ AgentTick

\* ---- NavigationTool (google_maps.py)

NoMessage == <<>>

NO_API_KEY == <<"Google Maps API key not configured.">>

NO_LOCATION_YET ==
  <<"I don't have your location yet. Make sure the app is open and GPS is on, then ask again.">>

NO_ROUTE_FOUND == <<"No route found.">>

ErrorStartingNavigation(err_msg) == <<"Error starting navigation: ", err_msg>>

\* the announcement of a started route: destination, totals, first direction
RouteAnnouncement(dest) == <<"Destination: ", dest>>

\* NavigationTool.__init__: client is None without an API key
NewNavigationTool(has_client) ==
  [client |-> has_client, has_gps |-> FALSE, pc |-> "idle",
   destination |-> "", message |-> NoMessage]

\* what client.directions can do: raise, or return a list of routes
DirectionsResults ==
  {[kind |-> "raise", routes |-> <<>>], [kind |-> "list", routes |-> <<>>]}
  \cup {[kind |-> "list", routes |-> <<r>>] : r \in {RouteOf(1), RouteOf(2)}}

\* no route obtained: the call raised, or "if not directions_result"
NoRouteObtained(result) == result.kind = "raise" \/ Len(result.routes) = 0

\* a failed directions call that also ends the route under way
SessionClearedOnFailure(result, dest, t, old) ==
  IF NoRouteObtained(result) THEN RouteStopState(old)
  ELSE RouteStartState(result.routes[1], dest, t, old)

\* the session start_navigation leaves behind once directions has returned
SessionAfterDirections(result, dest, t, old) ==
  IF NoRouteObtained(result) THEN old
  ELSE RouteStartState(result.routes[1], dest, t, old)

\* ---- start_navigation, up to its return or its await of client.directions
StartNavigation(origin_is_current, dest) ==
  /\ nav_tool.pc = "idle"
  /\ nav_tool' =
       IF ~nav_tool.client
       THEN [nav_tool EXCEPT !.message = NO_API_KEY]
       ELSE IF origin_is_current /\ ~nav_tool.has_gps
       THEN [nav_tool EXCEPT !.message = NO_LOCATION_YET]
       ELSE [nav_tool EXCEPT !.pc = "directions", !.destination = dest,
                             !.message = NoMessage]
  /\ UNCHANGED nav_vars
  /\ UNCHANGED hz_vars
  /\ UNCHANGED agent_vars
  /\ UNCHANGED <<rel_call, rewrite_call>>

\* ---- start_navigation resumed when the directions thread has finished
DirectionsReturns(result) ==
  /\ nav_tool.pc = "directions"
  /\ SetSession(SessionAfterDirections(result, nav_tool.destination, now,
                                       SessionState))
  /\ nav_hist' = IF NoRouteObtained(result) THEN nav_hist
                 ELSE [FreshHist EXCEPT !.restarted =
                         ~active_route.none /\ current_step_index > 0]
  /\ nav_tool' = [nav_tool EXCEPT
                    !.pc = "idle",
                    !.destination = "",
                    !.message =
                      IF result.kind = "raise"
                      THEN ErrorStartingNavigation("ApiError")
                      ELSE IF Len(result.routes) = 0 THEN NO_ROUTE_FOUND
                      ELSE RouteAnnouncement(nav_tool.destination)]
  /\ UNCHANGED <<now, nav_result>>
  /\ UNCHANGED hz_vars
  /\ UNCHANGED agent_vars
  /\ UNCHANGED <<rel_call, rewrite_call>>

\* the route tool called while position packets arrive
NavToolNext ==
  \/ \E c \in BOOLEAN, d \in Destinations : StartNavigation(c, d)
  \/ \E res \in DirectionsResults : DirectionsReturns(res)
  \/ \E p \in AgentSamples : GpsPacket(p, NoHeading)
  \/ ProcessGps
  \/ SpeechEnds
  \/ AgentTick

\* compass readings and bearings, in whole degrees
FULL_CIRCLE == 360

Degrees == 0..(FULL_CIRCLE - 1)

NoLabel == "-"

NoRelativeCall == [user_heading |-> NoHeading, target_bearing |-> NoHeading,
                   label |-> NoLabel]

\* _relative_direction(user_heading, target_bearing) returns
RelativeDirectionCall ==
  /\ rel_call.user_heading # NoHeading
  /\ rel_call.label = NoLabel
  /\ rel_call' = [rel_call EXCEPT !.label =
                    relative_direction(rel_call.user_heading,
                                       rel_call.target_bearing)]
  /\ UNCHANGED nav_vars
  /\ UNCHANGED hz_vars
  /\ UNCHANGED agent_vars
  /\ UNCHANGED <<nav_tool, rewrite_call>>

----------------------------------------------------------------------------
\* One normalization of a step instruction, as update_location performs it

\* html_instructions of a step: with each separator alone, with several of
\* them in either order, with one of them twice, with none, and with white
\* space around the street name
RewriteTexts ==
  { <<"Turn ", "<b>", "left", "</b>", " onto ", "<b>", "Main St", "</b>">>,
    <<"Head ", "<b>", "north", "</b>", " on ", "<b>", "Oak Ave", "</b>",
      " toward ", "<b>", "Elm St", "</b>">>,
    <<"Walk", " on ", "<b>", "Hill St", "</b>">>,
    <<"Go", " toward ", "the square", " onto ", "<b>", "Mill Ln", "</b>">>,
    <<"Merge", " onto ", "A1", " onto ", "B2">>,
    <<"Turn ", "<b>", "right", "</b>", " onto ", " ", "<b>", "Pine Rd", "</b>",
      " ", "<div style=\"font-size:0.9em\">", "</div>">>,
    <<"Continue straight">>,
    <<"<b>", "Proceed", "</b>">> }

\* compass readings that make the end of the step lie ahead, to the left,
\* behind and to the right, and no reading
RewriteHeadings == {NoHeading, 0, 90, 180, 270}

\* the sample, and ends of the step north of it, south of it and missing
RewritePositions == {StepLength}

RewriteEnds == {NoLocation, 0, 2 * StepLength}

NoRewriteCall == [html_instructions |-> <<>>, user_heading |-> NoHeading,
                  pos |-> 0, end_location |-> NoLocation,
                  returned |-> FALSE, result |-> <<>>]

\* update_location cleans the instruction of the next step and rewrites it
RewriteCall ==
  /\ rewrite_call.html_instructions # <<>>
  /\ ~rewrite_call.returned
  /\ rewrite_call' =
       [rewrite_call EXCEPT
          !.returned = TRUE,
          !.result = rewrite_instruction_with_heading(
                       clean_instruction(rewrite_call.html_instructions),
                       rewrite_call.user_heading, rewrite_call.pos,
                       [end_location |-> rewrite_call.end_location,
                        html_instructions |-> rewrite_call.html_instructions])]
  /\ UNCHANGED nav_vars
  /\ UNCHANGED hz_vars
  /\ UNCHANGED agent_vars
  /\ UNCHANGED <<rel_call, nav_tool>>

----------------------------------------------------------------------------
\* Specifications

Init ==
  /\ NavInit /\ HzInit /\ AgentInit /\ rel_call = NoRelativeCall
  /\ nav_tool = NewNavigationTool(TRUE)
  /\ rewrite_call = NoRewriteCall

\* the navigation session driven by routes, samples and the clock
SpecNav == Init /\ [][NavNext]_vars

\* the hazard pipeline driven by frames, start, stop and the event loop
SpecHazard == Init /\ [][HzNext]_vars

\* the same, with the event loop resuming a cancelled worker task; nothing is
\* assumed about the detector thread, the callbacks or the callers
SpecHazardFair == Init /\ [][HzNext]_vars /\ WF_vars(WorkerCancelled)

\* the pipeline with an event loop that resumes the worker whenever it is
\* ready, detector calls that come to an end and callbacks that return
SpecHazardLive ==
  /\ Init /\ [][LiveNext]_vars
  /\ WF_vars(WorkerBegin) /\ WF_vars(WorkerCancelled) /\ WF_vars(WorkerGet)
  /\ WF_vars(WorkerDecoded) /\ WF_vars(DetectorFinishes)
  /\ WF_vars(WorkerDetected) /\ WF_vars(CallbackReturns)

\* a job whose processors find no yolov8n.onnx to load
AgentStart == Init /\ use_hog

\* the agent job driven by room packets, the route tool, the clock and the
\* event loop
SpecAgent == AgentStart /\ [][AgentNext]_vars

\* the session sampled inside the warning zones of its steps
SpecWarning == Init /\ [][WarningNext]_vars

\* a job with or without a Google Maps API key
NavToolStart ==
  /\ NavInit /\ HzInit /\ AgentInit /\ use_hog /\ rel_call = NoRelativeCall
  /\ nav_tool \in {NewNavigationTool(c) : c \in BOOLEAN}
  /\ rewrite_call = NoRewriteCall

SpecNavTool == NavToolStart /\ [][NavToolNext]_vars

\* every pair of a heading and a bearing handed to _relative_direction
RelativeStart ==
  /\ NavInit /\ HzInit /\ AgentInit /\ use_hog
  /\ rel_call \in [user_heading : Degrees, target_bearing : Degrees,
                    label : {NoLabel}]
  /\ nav_tool = NewNavigationTool(TRUE)
  /\ rewrite_call = NoRewriteCall

SpecRelative == RelativeStart /\ [][RelativeDirectionCall]_vars

\* every instruction text normalized with every heading and end of step
RewriteStart ==
  /\ NavInit /\ HzInit /\ AgentInit /\ use_hog /\ rel_call = NoRelativeCall
  /\ nav_tool = NewNavigationTool(TRUE)
  /\ rewrite_call \in [html_instructions : RewriteTexts,
                        user_heading : RewriteHeadings,
                        pos : RewritePositions,
                        end_location : RewriteEnds,
                        returned : {FALSE}, result : {<<>>}]

SpecRewrite == RewriteStart /\ [][RewriteCall]_vars

\* the job driven by app-mode and obstacle-mode packets while say_greeting
\* sleeps and afterwards
SpecGreeting == AgentStart /\ [][GreetingNext]_vars

\* the session driven by concurrently scheduled _process_gps tasks and by
\* update_location tool calls
SpecGps == AgentStart /\ [][GpsNext]_vars

\* the session and the gps topic driven by directions responses that lack
\* legs, steps or coordinates
SpecMalformed == AgentStart /\ [][MalformedNext]_vars

----------------------------------------------------------------------------
\* Properties of the navigation session

Elapsed == now - route_started_at

RouteActive == ~active_route.none

\* C1: on an approach to the end of a non-final step, sampled after the grace
\* window at strictly decreasing distances, no sample farther than 45 m returns
\* anything; once a sample has fallen in [12 m, 45 m) exactly one warning and
\* no "Now." has been returned; and once a sample below 12 m has followed,
\* exactly one warning and exactly one "Now." have been returned for the step,
\* the cursor having moved on.
C1_WarnThenNowOnce ==
  LET t == nav_hist.track IN
  (t.step >= 0 /\ t.mono) =>
     /\ (~t.zone /\ ~t.below) => (t.warns = 0 /\ t.nows = 0)
     /\ (t.zone /\ ~t.below) => (t.warns = 1 /\ t.nows = 0)
     /\ (t.zone /\ t.below) =>
           (t.warns = 1 /\ t.nows = 1 /\ current_step_index = t.step + 1)

\* a decreasing approach with a sample in the warning zone has just ended
\* below 12 m, on a step that is not the first of its route
C1_Witness ==
  LET t == nav_hist.track IN
  /\ t.step >= 1 /\ t.mono /\ t.zone /\ t.below
  /\ nav_result.kind = "now"

\* C2: an update_location call made less than 18 s after the most recent
\* start_route returns none and leaves the current step index and the
\* last-spoken index as they were, for every position and heading.
C2_GraceReturnsNone ==
  [][\A p \in SamplePositions, h \in Headings :
       (RouteActive /\ Elapsed < 18 /\ update_location(p, h)) =>
          /\ nav_result' = NoneResult
          /\ current_step_index' = current_step_index
          /\ last_instruction_spoken_index' = last_instruction_spoken_index]_vars

\* a call has been made inside the grace window, some seconds after the start
C2_Witness ==
  /\ RouteActive /\ Elapsed > 0 /\ Elapsed < 18
  /\ nav_hist.grace_call
  /\ nav_result = NoneResult
  /\ current_step_index = 0 /\ last_instruction_spoken_index = -1

\* C3: once a sample has been processed after the grace window with the cursor
\* on the final step of the route, the arrival announcement has been returned
\* exactly once on that route, and never with the cursor off the final step.
C3_ArrivalExactlyOnce ==
  /\ nav_hist.final_sampled => nav_hist.arrivals = 1
  /\ ~nav_hist.arrived_off_final

\* C4: on one route, for every step index k, the warning naming step k and the
\* "Now." naming step k are each returned at most once, and no warning naming
\* step k is returned after the "Now." naming step k.
C4_AtMostOncePerStep ==
  /\ \A k \in StepIndexes : nav_hist.warns[k] <= 1 /\ nav_hist.nows[k] <= 1
  /\ ~nav_hist.warn_after_now

\* both announcements of one step have been returned and the walker has since
\* been sampled again inside the warning distance of the step after it
C4_Witness ==
  \E k \in StepIndexes :
    /\ nav_hist.warns[k] = 1 /\ nav_hist.nows[k] = 1
    /\ k + 1 \in StepIndexes /\ nav_hist.warns[k + 1] = 1
    /\ nav_result = NoneResult

----------------------------------------------------------------------------
\* Properties of the hazard pipeline

\* C5: when the worker takes up a detector result that reports an obstacle, it
\* starts exactly one on_obstacle callback, carrying the detector's label and
\* is_new, and is_new is true iff the frame processed before had the result
\* clear or no frame has had a result yet.
C5_IsNewOnTransition ==
  [][(task = "detected" /\ task' = "cb" /\ detect_result \notin {"None", "raise"})
       => /\ cb = NoCallback
          /\ cb' = OnObstacle(detect_result, hz_hist.prev_result # "present")
          /\ hz_hist'.events =
               Append(hz_hist.events,
                      IF hz_hist.prev_result # "present" THEN "new" ELSE "repeat")]_vars

\* the detections present, present, clear, present have been processed and
\* gave is_new true, false, (clear), true
C5_Witness ==
  /\ hz_hist.events = <<"new", "repeat", "clear", "new">>
  /\ cb = OnObstacle("person", TRUE)

\* C6: on_clear is started only on a transition from present to clear: never
\* as the first event, and never right after another on_clear.
C6_ClearOnlyOnTransition ==
  \A i \in 1..Len(hz_hist.events) :
    hz_hist.events[i] = "clear" => (i > 1 /\ hz_hist.events[i - 1] # "clear")

\* C7: the frame queue never holds more than 2 items, stop sentinel included.
C7_QueueAtMostTwo == Len(queue) <= 2

\* a stopped pipeline whose queue holds a pending frame and the stop sentinel
C7_Witness ==
  /\ ~running
  /\ Len(queue) = 2 /\ queue[1] # Sentinel /\ queue[2] = Sentinel

\* C8: put_frame of a frame on a running pipeline whose queue holds 2 pending
\* frames leaves the queue holding the newer of the two followed by the new
\* frame; and put_frame can always be taken, whatever the worker is doing.
C8_DropOldest ==
  /\ [](\A d \in FramePayloads : ENABLED put_frame(d))
  /\ [][\A d \in FramePayloads :
          (/\ running
           /\ Len(queue) = 2 /\ queue[1] # Sentinel /\ queue[2] # Sentinel
           /\ StripPayload(d) # ""
           /\ put_frame(d))
          => queue' = <<queue[2], StripPayload(d)>>]_vars

\* put_frame has just found two different pending frames and the worker busy
C8_Witness ==
  /\ hz_hist.put_on_full /\ running
  /\ Len(queue) = 2 /\ queue[1] # queue[2]
  /\ task = "detect"

\* C9: from a stop() until a later start() creates a worker, no on_obstacle
\* or on_clear callback is started.
C9_NoCallbackAfterStop ==
  [][(cb = NoCallback /\ cb' # NoCallback) => ~hz_hist.stopped]_vars

\* stop() was called when the worker had just obtained a detection
C9_Witness ==
  /\ hz_hist.stopped /\ must_cancel
  /\ task = "detected" /\ detect_result \in {"person", "car"}

\* C10: when the detector call of a frame raises, the worker stays in its
\* loop with the running flag true.
C10_DetectorFailureSkipped ==
  [][(task = "detected" /\ detect_result = "raise" /\ ~must_cancel /\ task' # task)
       => (running' /\ TaskAlive(task'))]_vars

\* C11 (as stated): a hazard event whose callback is not cancelled by stop()
\* is spoken iff it is an on_obstacle event with is_new true that arrived (its
\* callback was started) while the session was not in its startup grace
\* window.
C11_SpokenIffNewOutsideGraceAtArrival ==
  [][(cb_pc = "publish" /\ cb_pc' # "publish" /\ ~must_cancel)
       => ((cb_pc' = "say" /\ voice' = <<HazardSpeech(cb)>>)
             <=> (cb.type = "obstacle" /\ cb.is_new
                    /\ ~ag_hist.grace_at_arrival))]_vars

\* C11 (amended): a hazard event is spoken iff it is an on_obstacle event with
\* is_new true whose callback, not cancelled by stop(), finds the session
\* outside its startup grace window when it is resumed after the side-channel
\* publish; the alert is then the only speech of the voice channel. No other
\* step lets a callback speak.
C11_SpokenIffNewOutsideGraceAfterPublish ==
  /\ [][(cb_pc = "publish" /\ cb_pc' # "publish")
          => ((cb_pc' = "say" /\ voice' = <<HazardSpeech(cb)>>)
                <=> (/\ ~must_cancel
                     /\ cb.type = "obstacle" /\ cb.is_new
                     /\ ~(RouteActive /\ Elapsed < ROUTE_START_GRACE_SECONDS)))]_vars
  /\ [][(cb_pc # "say" /\ cb_pc' = "say") => cb_pc = "publish"]_vars

\* an event that arrived inside the grace window is being spoken: the window
\* closed while its publish was under way
C11_Witness ==
  /\ ag_hist.grace_at_arrival
  /\ cb_pc = "say" /\ cb.type = "obstacle" /\ cb.is_new
  /\ voice = <<HazardSpeech(cb)>>
  /\ RouteActive /\ Elapsed >= ROUTE_START_GRACE_SECONDS

\* C12: the step that hands an event to its callback hands the payload
\* {detected: true, description} (on_obstacle) or {detected: false,
\* description: ""} (on_clear) to publish_data and leaves the voice channel
\* alone; the step in which a callback speaks comes later, with that payload
\* already on the side-channel.
C12_PublishedWhetherSpokenOrNot ==
  /\ [][(cb = NoCallback /\ cb' # NoCallback)
          => /\ side_channel' = IF cb'.type = "obstacle"
                                THEN [detected |-> TRUE, description |-> cb'.desc]
                                ELSE [detected |-> FALSE, description |-> ""]
             /\ ag_hist'.pub_parity # ag_hist.pub_parity
             /\ voice' = voice]_vars
  /\ [][(cb_pc # "say" /\ cb_pc' = "say")
          => /\ cb # NoCallback /\ cb' = cb
             /\ side_channel = [detected |-> TRUE, description |-> cb.desc]
             /\ side_channel' = side_channel]_vars

\* a repeat detection has been published inside the grace window, with
\* nothing spoken
C12_Witness ==
  /\ RouteActive /\ Elapsed < ROUTE_START_GRACE_SECONDS
  /\ cb = OnObstacle("person", FALSE) /\ cb_pc = "publish"
  /\ side_channel = [detected |-> TRUE, description |-> "person"]
  /\ voice = <<>>

\* C13: every accepted announcement cancels the speech before it, so the
\* voice channel never holds an announcement queued behind another one.
C13_VoiceCarriesLatestOnly ==
  Len(voice) <= 1

\* C14: of the interrupt and say calls made by announcements, every interrupt
\* is directly followed by the say of the same announcement, and every say of
\* a hazard or navigation announcement directly follows its own interrupt.
C14_InterruptSayAtomic ==
  LET ops == ag_hist.ops IN
  \A i \in 1..Len(ops) :
    /\ (ops[i].op = "interrupt" /\ i < Len(ops))
         => ops[i + 1] = Op(ops[i].src, "say")
    /\ (ops[i].op = "say" /\ ops[i].src # "greeting" /\ i > 1)
         => ops[i - 1] = Op(ops[i].src, "interrupt")

\* a navigation task has announced while the hazard callback was awaiting
\* the alert it had spoken
C14_Witness ==
  /\ cb_pc = "say" /\ task = "cb"
  /\ ag_hist.ops = <<Op("nav", "interrupt"), Op("nav", "say")>>
  /\ Len(voice) = 1 /\ voice[1].src = "nav"

\* C15: after stop() the worker loop ends (task finished, running flag false)
\* under the one assumption that the event loop resumes the cancelled task,
\* whether or not the detector call in flight ever completes and whether or
\* not the stop sentinel found room in the queue.
C15_WorkerTerminates ==
  hz_hist.stopped ~> (~TaskAlive(task) /\ ~running)

\* the worker has ended after a stop() that found the queue full of frames
C15_Witness ==
  /\ hz_hist.stopped /\ task = "done" /\ ~running
  /\ Len(queue) = 2 /\ Sentinel \notin {queue[1], queue[2]}

\* C16: stop() leaves the frames-processed counter 0, the last-presence flag
\* false and no pending frame in the queue.
C16_StopResets ==
  [][stop => /\ frames_processed' = 0
             /\ ~last_obstacle'
             /\ \A i \in 1..Len(queue') : queue'[i] = Sentinel]_vars

\* C17: start() called while the worker task is alive changes nothing: the
\* task, its position and locals, the queue, the running flag, the
\* last-presence flag and the frame counter are as before.
C17_StartIdempotent ==
  [][(TaskAlive(task) /\ start)
       => UNCHANGED <<queue, running, last_obstacle, frames_processed, use_hog,
                      task, must_cancel, item, detect_result, cb>>]_vars

\* start() has just been called on a worker busy with the detector, with a
\* frame pending and an obstacle reported before
C17_Witness ==
  /\ hz_hist.start_noop
  /\ task = "detect" /\ running /\ queue # <<>> /\ last_obstacle
  /\ frames_processed > 0

\* C18: start_route(route, destination), from any session state, leaves that
\* route active, the cursor 0, the last-spoken index -1, the new destination
\* and the current clock reading as start time, in one step.
C18_StartRouteResets ==
  [][\A r \in Routes, d \in Destinations :
       start_route(r, d) =>
         /\ active_route' = r
         /\ current_step_index' = 0
         /\ last_instruction_spoken_index' = -1
         /\ destination' = d
         /\ route_started_at' = now]_vars

\* a route has just replaced, some time later, one on which the cursor had
\* advanced
C18_Witness ==
  /\ nav_hist.restarted /\ RouteActive
  /\ current_step_index = 0 /\ last_instruction_spoken_index = -1
  /\ route_started_at = now /\ now > 0

\* C19: with no active route (after stop_navigation, until the next
\* start_route) is_in_initial_nav_phase is false, and every update_location
\* call returns none and changes no field of the session.
C19_StoppedSessionIsSilent ==
  /\ [](~RouteActive =>
          /\ ~is_in_initial_nav_phase(active_route, route_started_at, now)
          /\ current_step_index = 0 /\ last_instruction_spoken_index = -1)
  /\ [][\A p \in SamplePositions, h \in Headings :
          (~RouteActive /\ update_location(p, h)) =>
             /\ nav_result' = NoneResult
             /\ UNCHANGED <<active_route, current_step_index, destination,
                            last_instruction_spoken_index, route_started_at>>]_vars
  /\ [][stop_navigation => ~RouteActive']_vars

\* update_location has been called after stop_navigation ended a route
C19_Witness ==
  /\ nav_hist.after_stop /\ nav_hist.idle_call
  /\ ~RouteActive /\ nav_result = NoneResult /\ now > 0

\* C20: when, on a non-final step for which no sample fell in [12 m, 45 m),
\* a sample below 12 m directly follows one farther than 45 m, that sample
\* returns the "Now." of the step and advances the cursor by one, no warning
\* having been returned for the step, and none is returned afterwards.
C20_SkipStraightToNow ==
  LET t == nav_hist.track IN
  (t.step >= 0 /\ t.skip /\ ~t.zone) =>
     /\ t.nows = 1 /\ t.warns = 0
     /\ current_step_index = t.step + 1
     /\ nav_hist.nows[t.step + 1] = 1
     /\ nav_hist.warns[t.step + 1] = 0

\* the walker skipped the warning zone of the second step of a route
C20_Witness ==
  LET t == nav_hist.track IN
  /\ t.step = 1 /\ t.skip /\ ~t.zone
  /\ nav_result.kind = "now" /\ nav_result.step = 2

\* C21: once the arrival announcement has been returned on a route, every
\* later update_location call on that route, whatever the position and the
\* heading, returns none and changes no field of the session.
C21_SilentAfterArrival ==
  [][\A p \in SamplePositions, h \in Headings :
       (nav_hist.arrivals >= 1 /\ update_location(p, h)) =>
          /\ nav_result' = NoneResult
          /\ UNCHANGED <<active_route, current_step_index, destination,
                         last_instruction_spoken_index, route_started_at>>]_vars

\* update_location has been called again after it returned the arrival
C21_Witness ==
  /\ RouteActive /\ nav_hist.arrivals = 1
  /\ nav_result = NoneResult
  /\ last_instruction_spoken_index = current_step_index

\* C22: no update_location call on an active route lowers the last-spoken
\* index.
C22_LastSpokenMonotone ==
  [][\A p \in SamplePositions, h \in Headings :
       (RouteActive /\
        last_instruction_spoken_index' < last_instruction_spoken_index) =>
          ~update_location(p, h)]_vars

\* the "Now." of a step has been returned after its warning: the index was
\* written twice with the same value
C22_Witness ==
  /\ RouteActive /\ nav_result.kind = "now" /\ nav_result.step = 1
  /\ nav_hist.warns[1] = 1 /\ nav_hist.nows[1] = 1
  /\ last_instruction_spoken_index = 1

\* C23: with an active route the cursor is at least 0 and at most the number
\* of steps of that route.
C23_CursorInRange ==
  RouteActive =>
    /\ current_step_index >= 0
    /\ current_step_index <= Len(StepsOf(active_route))

\* the cursor has reached the last step of the longest route
C23_Witness ==
  /\ RouteActive /\ Len(StepsOf(active_route)) = MaxSteps
  /\ current_step_index = MaxSteps - 1

\* C27: while the worker holds a frame that does not decode, whose decoded
\* payload is under 100 bytes or whose image is too small, no callback is
\* started, the last-presence flag and the frames-processed counter keep
\* their values, and the worker's next step takes it back to the head of its
\* loop (or ends it, when stop() was called meanwhile), never to the detector.
C27_BadFrameSkipped ==
  [][(task = "decode" /\ item \in {"short", "tiny"}) =>
       /\ cb' = NoCallback
       /\ hz_hist'.events = hz_hist.events
       /\ last_obstacle' = last_obstacle
       /\ frames_processed' = frames_processed
       /\ task' \in {"decode", "get", "done"}
       /\ (task' = "get" => hz_hist'.skipped)]_vars

\* a frame has been skipped after an obstacle was reported: the worker waits
\* for the next frame with the flag and the counter as they were
C27_Witness ==
  /\ hz_hist.skipped /\ task = "get" /\ running
  /\ last_obstacle /\ frames_processed = 1
  /\ hz_hist.events = <<"new">>

\* C28: after an obstacle-mode packet has disabled the mode and the pipeline
\* was stopped and dropped, a pipeline comes into existence again only in the
\* step of an obstacle-mode packet with enabled true, whatever frames arrive
\* in between.
C28_NoPipelineAfterDisable ==
  [][(hz_hist.stopped /\ ~obstacle_processor /\ obstacle_processor') =>
        ObstacleModePacket(TRUE)]_vars

\* a route without legs or without steps, or whose current or next step has
\* no end_location or one without lat or lng
MalformedAt(route, cursor) ==
  LET steps == StepsOf(route)
      bad(k) == k <= Len(steps) /\ steps[k].end_location \in {NoLocation, PartialLocation}
  IN  \/ Len(steps) = 0
      \/ (cursor + 1 >= 1 /\ bad(cursor + 1))
      \/ (cursor + 2 >= 1 /\ bad(cursor + 2))

\* C26: update_location on an active route that is malformed at the cursor
\* does not raise, returns none and leaves the session as it was.
C26_MalformedRouteYieldsNone ==
  [][\A p \in MalformedSamples \ {NoLocation}, h \in {NoHeading, 0} :
       (RouteActive /\ MalformedAt(active_route, current_step_index)
        /\ update_location(p, h)) =>
          /\ nav_result' = NoneResult
          /\ UNCHANGED <<active_route, current_step_index, destination,
                         last_instruction_spoken_index, route_started_at>>]_vars

\* C29: a _process_gps task runs as one step on the indices the session has
\* at that moment, so that its result and the indices it leaves are those of
\* update_location called then with the task's sample (the tasks are equal to
\* calls made one at a time in the order in which they run); and on one route
\* no warning and no "Now." instruction of a step is returned to two calls,
\* tasks or tool calls.
C29_TasksSerialized ==
  [][/\ (gps_tasks # <<>> /\ gps_tasks' = Tail(gps_tasks) /\ RouteActive) =>
          LET t == Head(gps_tasks)
              h == IF t.heading # NoHeading THEN t.heading ELSE latest_heading
              out == UpdateLocationOutcome(active_route, current_step_index,
                                           last_instruction_spoken_index,
                                           destination, route_started_at, now,
                                           t.pos, h)
          IN  /\ nav_result' = out.res
              /\ current_step_index' = out.cursor
              /\ last_instruction_spoken_index' = out.last
     /\ \A k \in StepIndexes :
          nav_hist'.warns[k] <= 1 /\ nav_hist'.nows[k] <= 1]_vars

\* of two tasks created while no instruction had been returned, the first has
\* run and returned the warning of step 1; the second is still to run
C29_Witness ==
  /\ RouteActive /\ Len(gps_tasks) = 1
  /\ gps_tasks[1].seen.last = -1 /\ gps_tasks[1].seen.cursor = 0
  /\ gps_tasks[1].pos = StepLength - (WarnUnits - 1)
  /\ nav_result.kind = "warn" /\ nav_result.step = 1
  /\ last_instruction_spoken_index = 1
  /\ nav_hist.warns[1] = 1

\* C24: greeting_said is never reset; a greeting is put on the voice channel
\* only by the step that sets greeting_said, no later than the clock step in
\* which the sleep of say_greeting ends, and as one speech: the hazard-mode
\* phrase when at that step obstacles are enabled and navigation is not, the
\* navigation greeting otherwise.
C24_GreetingOnceWithModePhrase ==
  [][/\ greeting_said => greeting_said'
     /\ (Len(voice') > Len(voice) /\ voice'[Len(voice')].src = "greeting") =>
          /\ ~greeting_said /\ greeting_said'
          /\ now <= greeting_delay
          /\ voice' = Append(voice, voice'[Len(voice')])
          /\ voice'[Len(voice')].text =
               IF app_obstacles_enabled /\ ~app_navigation_enabled
               THEN OBSTACLES_ONLY_GREETING ELSE GREETING_PHRASE
     /\ (~greeting_said /\ greeting_said') =>
          (Len(voice') = Len(voice) + 1 /\ voice'[Len(voice')].src = "greeting")]_vars

\* the hazard-mode phrase is playing: the greeting ran after an app-mode
\* packet had switched navigation off and obstacles on
C24_Witness ==
  /\ greeting_said
  /\ voice = <<Speech("greeting", OBSTACLES_ONLY_GREETING)>>
  /\ app_obstacles_enabled /\ ~app_navigation_enabled
  /\ ~obstacle_processor

\* the worker waits at queue.get() and no frame is pending
WorkerCaughtUp == task = "get" /\ \A i \in 1..Len(queue) : queue[i] = Sentinel

\* C30: a frame accepted by put_frame is the last item of the queue when the
\* call returns, whatever had to be evicted for it; and in a run in which from
\* some point on the pipeline stays running without the worker ever having
\* caught up with the queue, frames keep being submitted: if no further frame
\* is submitted the worker dequeues every pending frame, the most recent last,
\* and returns to wait for the next one.
C30_NewestFrameProcessed ==
  /\ [][\A d \in LiveFrames :
          (running /\ StripPayload(d) # "" /\ put_frame(d)) =>
             (queue' # <<>> /\ queue'[Len(queue')] = StripPayload(d))]_vars
  /\ (<>[](running /\ ~WorkerCaughtUp /\ frames_processed < MaxFrames)
        => []<><<LivePut>>_vars)

\* the last put_frame evicted a frame; since then the worker has emptied the
\* queue and holds the frame submitted last
C30_Witness ==
  /\ running /\ hz_hist.put_on_full
  /\ queue = <<>> /\ task = "cb" /\ item = "person"
  /\ frames_processed >= 2

\* the label of a bearing that lies m degrees clockwise of the heading
LabelClockwise(m) ==
  IF m <= 45 \/ m >= 315 THEN "forward"
  ELSE IF m <= 135 THEN "right"
  ELSE IF m < 225 THEN "behind"
  ELSE "left"

\* C25: for every heading and bearing in [0,360), with
\* delta = ((bearing - heading + 540) mod 360) - 180, _relative_direction
\* returns forward exactly for delta in [-45,45], right exactly for (45,135],
\* left exactly for [-135,-45) and behind exactly for the rest; exactly one of
\* the four holds, and the label is the one of (bearing - heading) mod 360.
C25_RelativeDirectionPartition ==
  rel_call.label # NoLabel =>
    LET delta == ((rel_call.target_bearing - rel_call.user_heading + 540) % 360) - 180
        is == [forward |-> -45 <= delta /\ delta <= 45,
               right |-> 45 < delta /\ delta <= 135,
               left |-> -135 <= delta /\ delta < -45,
               behind |-> delta < -135 \/ delta > 135]
    IN  /\ rel_call.label \in DOMAIN is
        /\ \A l \in DOMAIN is : is[l] <=> (rel_call.label = l)
        /\ delta >= -180 /\ delta < 180
        /\ rel_call.label =
             LabelClockwise((rel_call.target_bearing - rel_call.user_heading) % 360)

\* a bearing 225 degrees clockwise of the heading, across north: delta is -135
C25_Witness ==
  /\ rel_call.user_heading = 350 /\ rel_call.target_bearing = 215
  /\ rel_call.label = "left"

\* round(d) of Python for a distance of d units: the nearest whole metre,
\* the even one when two are equally near
RoundedMeters(d) ==
  LET q == d \div UnitsPerMeter
      r == d % UnitsPerMeter
  IN  IF 2 * r < UnitsPerMeter THEN q
      ELSE IF 2 * r > UnitsPerMeter THEN q + 1
      ELSE IF q % 2 = 0 THEN q ELSE q + 1

\* C31: the number of metres in a warning just returned is the distance of
\* the sample from the end of the current step, rounded to the nearest metre.
C31_WarningRounded ==
  (nav_result.kind = "warn" /\ nav_hist.track.step = current_step_index
   /\ nav_hist.track.prev >= NowUnits) =>
     nav_result.meters = RoundedMeters(nav_hist.track.prev)

\* the messages with which start_navigation reports that it has no route
FailureMessages ==
  {NO_API_KEY, NO_LOCATION_YET, NO_ROUTE_FOUND, ErrorStartingNavigation("ApiError")}

\* C32: a step of start_navigation that ends the call without a route (no
\* client, no location for "current location", an empty directions result,
\* the directions call raising) leaves a failure message and the active
\* route, cursor, last-spoken index, destination and start time as they were.
C32_FailedStartKeepsSession ==
  [][(nav_tool'.pc = "idle" /\ nav_tool'.message # nav_tool.message
      /\ nav_tool'.message # RouteAnnouncement(nav_tool.destination)) =>
        /\ nav_tool'.message \in FailureMessages
        /\ UNCHANGED <<active_route, current_step_index, destination,
                       last_instruction_spoken_index, route_started_at>>]_vars

\* the directions call has failed while a route with progress was under way
C32_Witness ==
  /\ nav_tool.pc = "idle" /\ nav_tool.message = NO_ROUTE_FOUND
  /\ RouteActive /\ current_step_index = 1
  /\ last_instruction_spoken_index = 1

\* C33: a start() called after stop(), whether the old worker has exited or
\* not, leaves the running flag set and a new worker about to run, with none
\* of the frames and sentinels queued before the stop left for it.
C33_RestartRunsOnEmptyQueue ==
  [][(hz_hist.stopped /\ start) =>
        /\ running' /\ task' = "new" /\ ~must_cancel'
        /\ queue' = <<>>]_vars

\* C34: the cursor changes only when a route is started or stopped, or by
\* exactly +1 in an update_location call made after the grace window with a
\* sample less than 12 m from the end of the current step, that step not being
\* the final one; such a call returns a "Now." instruction, never a warning.
C34_CursorStepsByOne ==
  [][(current_step_index' # current_step_index) =>
       \/ \E r \in Routes, d \in Destinations : start_route(r, d)
       \/ stop_navigation
       \/ /\ RouteActive
          /\ current_step_index' = current_step_index + 1
          /\ current_step_index + 1 < Len(StepsOf(active_route))
          /\ ~InGrace(route_started_at, now)
          /\ nav_result'.kind = "now"
          /\ \E p \in SamplePositions, h \in Headings :
               /\ update_location(p, h)
               /\ haversine_distance(p,
                    StepsOf(active_route)[current_step_index + 1].end_location)
                  < TURN_NOW_THRESHOLD * UnitsPerMeter]_vars

\* the cursor has been advanced twice on one route, after a warning each time
C34_Witness ==
  /\ RouteActive /\ current_step_index = 2 /\ nav_result.kind = "now"
  /\ nav_hist.nows[1] = 1 /\ nav_hist.nows[2] = 1
  /\ nav_hist.warns[1] = 1 /\ nav_hist.warns[2] = 1

C36_GraceArrivalNeverSpoken ==
  /\ [][(cb_pc # "say" /\ cb_pc' = "say") => ~ag_hist.streak_in_grace]_vars
  /\ [][(Len(hz_hist.events') = Len(hz_hist.events) + 1
            /\ hz_hist.events'[Len(hz_hist.events')] = "new")
          => hz_hist.prev_result # "present"]_vars

\* C36 (amended): only an event with is_new true is spoken, and only when its
\* callback is resumed after the publish with the grace window closed; an
\* event with is_new true follows a clear frame or is the first of its
\* processor. So a hazard whose first event was resumed inside the window stays
\* unspoken while it is detected without a clear frame between, whatever the
\* clock says at the later events.
C36_RepeatNeverSpoken ==
  /\ [][(cb_pc # "say" /\ cb_pc' = "say")
          => /\ cb.type = "obstacle" /\ cb.is_new
             /\ ~(RouteActive /\ Elapsed < ROUTE_START_GRACE_SECONDS)
             /\ hz_hist.events[Len(hz_hist.events)] = "new"]_vars
  /\ [][(Len(hz_hist.events') = Len(hz_hist.events) + 1
            /\ hz_hist.events'[Len(hz_hist.events')] = "new")
          => hz_hist.prev_result # "present"]_vars
  /\ [][(cb_pc = "publish" /\ cb_pc' # "publish"
            /\ cb.type = "obstacle" /\ ~cb.is_new)
          => /\ cb_pc' = "idle"
             /\ voice' = voice]_vars

\* a repeat detection of a hazard first seen inside the grace window is being
\* published after the window has closed, and no alert is on the voice channel
C36_Witness ==
  /\ cb_pc = "publish" /\ cb.type = "obstacle" /\ ~cb.is_new
  /\ ag_hist.streak_in_grace
  /\ Len(hz_hist.events) >= 2
  /\ hz_hist.events[Len(hz_hist.events)] = "repeat"
  /\ RouteActive /\ Elapsed >= ROUTE_START_GRACE_SECONDS
  /\ ~HazardSpeechPending(voice)

\* C37: while a route is active the last-spoken index is the cursor minus one,
\* the cursor or the cursor plus one, so the guard of the "Now." branch holds
\* in every reachable state; and every call made after the grace window with a
\* sample closer than 12 m to the end of a non-final current step returns the
\* "Now." instruction of the next step and moves the cursor onto it.
C37_LastSpokenWithinOneOfCursor ==
  /\ [](RouteActive =>
          /\ current_step_index - 1 <= last_instruction_spoken_index
          /\ last_instruction_spoken_index <= current_step_index + 1
          /\ NowGuard(last_instruction_spoken_index, current_step_index + 1))
  /\ [][(RouteActive /\ ~InGrace(route_started_at, now)
            /\ current_step_index + 1 < Len(StepsOf(active_route))) =>
          \A p \in SamplePositions :
            haversine_distance(p,
              StepsOf(active_route)[current_step_index + 1].end_location)
                < NowUnits =>
              \A h \in Headings :
                update_location(p, h) =>
                  /\ nav_result'.kind = "now"
                  /\ nav_result'.step = current_step_index + 1
                  /\ current_step_index' = current_step_index + 1
                  /\ last_instruction_spoken_index' = current_step_index']_vars

\* a "Now." was returned for a step whose warning had been returned before:
\* the guard was passed with the last-spoken index equal to the next index
C37_Witness ==
  /\ RouteActive
  /\ nav_result.kind = "now"
  /\ current_step_index = nav_result.step
  /\ last_instruction_spoken_index = current_step_index
  /\ nav_hist.warns[nav_result.step] = 1
  /\ nav_hist.nows[nav_result.step] = 1

\* the separators of a street-name suffix, in the order they are tried
Separators == <<" onto ", " toward ", " on ">>

\* the text from the first occurrence of the first separator present, that
\* separator included; nothing when no separator is present
SuffixOf(text) ==
  LET present == {k \in 1..Len(Separators) : \E i \in 1..Len(text) : text[i] = Separators[k]}
  IN  IF present = {} THEN <<>>
      ELSE LET k == CHOOSE x \in present : \A y \in present : x <= y
               at == {i \in 1..Len(text) : text[i] = Separators[k]}
               i == CHOOSE x \in at : \A y \in at : x <= y
           IN  SubSeq(text, i, Len(text))

\* the text without its tags, computed token by token
Cleaned(html) == SelectSeq(html, LAMBDA tok : tok \notin Tags)

C39_NoDequeueWhileCallbackAwaited ==
  /\ [][(task = "cb" /\ task' = "cb") =>
          /\ item' = item
          /\ frames_processed' = frames_processed
          /\ \/ queue' = queue
             \/ /\ running
                /\ \E d \in FramePayloads :
                     /\ StripPayload(d) # ""
                     /\ queue' = LastTwo(queue \o <<StripPayload(d)>>)
             \/ /\ ~running'
                /\ queue' = Append(queue, Sentinel)]_vars
  /\ [][task = "cb" =>
          \A d \in FramePayloads :
            put_frame(d) =>
              /\ task' = "cb" /\ cb' = cb /\ must_cancel' = must_cancel
              /\ (running /\ StripPayload(d) # "") =>
                    /\ queue' # <<>>
                    /\ queue'[Len(queue')] = StripPayload(d)]_vars
  /\ [][(task = "cb" /\ task' = "get") =>
          /\ queue' = queue
          /\ Len(queue) <= QUEUE_MAXSIZE
          /\ Len(hz_hist.since_cb) <= Len(queue)
          /\ SubSeq(queue, Len(queue) - Len(hz_hist.since_cb) + 1, Len(queue))
               = hz_hist.since_cb]_vars

\* a callback is awaited and can return; the frame submitted last met a full
\* queue, and the queue holds the two frames submitted during the callback
C39_Witness ==
  /\ task = "cb" /\ ~must_cancel /\ running
  /\ hz_hist.put_on_full
  /\ Len(hz_hist.since_cb) = 2
  /\ queue = hz_hist.since_cb
  /\ queue[1] # queue[2]

====
